---- MODULE Spec2Model ----
(***************************************************************************)
(* Healthylinkx A2A server.                                                *)
(*                                                                         *)
(* Modelled, each under a specification of its own:                        *)
(*   - the JSON-RPC adapter (a2a/src/lambdaAdapter.js): LambdaA2AAdapter   *)
(*     with its in-memory task map and the DoctorSearchExecutor, one       *)
(*     request at a time (Spec) and with a cancel interleaved (SpecConc);  *)
(*   - its free-text parser on every text of a vocabulary (SpecParse);     *)
(*   - the SDK executor (a2a/src/index.js): HealthylinkxExecutor.execute   *)
(*     publishing on the SDK's event bus (SpecExec);                       *)
(*   - the REST handler of index.js and the agent cards (SpecRest);        *)
(*   - LambdaDeployer.deployLambda (a2a/infra/LambdaDeployer.js) with its  *)
(*     waits and retries (SpecDeploy).                                     *)
(*                                                                         *)
(* JavaScript values that are tested for truthiness or compared with ===   *)
(* are written as their source literal: "undefined", "0", "''", "'t1'".    *)
(***************************************************************************)
EXTENDS Integers, Sequences, FiniteSets, TLC

\* ------------------------------------------------------------------ bounds

\* message/send runs that get past parameter validation in one behaviour
\* (each draws fresh Date.now()/Math.random() identifiers).
MaxSends == 2

\* tokens of a message text handed to the free-text parser
MaxTextLen == 3

\* ------------------------------------------------------- JavaScript values

Undefined == "undefined"

Falsy == {"undefined", "null", "0", "''", "false"}

Truthy(v) == v \notin Falsy

\* a || b
OrElse(a, b) == IF Truthy(a) THEN a ELSE b

\* ------------------------------------------------------------- error codes

PARSE_ERROR == -32700
INVALID_REQUEST == -32600
METHOD_NOT_FOUND == -32601
INVALID_PARAMS == -32602
INTERNAL_ERROR == -32603
SERVER_ERROR == -32000

\* ------------------------------------------------------- message text, tokens

\* A message text is a sequence of whitespace-separated tokens; a token is a
\* word (s) or a run of decimal digits (ds).
Word(s) == [s |-> s, ds |-> <<>>]

Digits(ds) == [s |-> "", ds |-> ds]

\* the value of an optional chain on a failed match: undefined
NoMatch == Word("undefined")

\* the /i flag: the letters of the vocabulary that carry upper case
Lower(s) ==
  CASE s = "Named" -> "named"
    [] s = "Female" -> "female"
    [] s = "Male" -> "male"
    [] OTHER -> s

\* words whose tail is matched by (?:named?|lastname|last name): the pattern is
\* not anchored at a word boundary, so any word ending in "name" or "named" does.
EndsWithName(tok) ==
  Lower(tok.s) \in {"name", "named", "lastname", "surname", "rename", "unnamed"}

EndsWithLast(tok) == Lower(tok.s) \in {"last"}

\* words whose tail is matched by (?:specialty|specialization|type|field)
EndsWithSpecialty(tok) ==
  Lower(tok.s) \in {"specialty", "specialization", "type", "field"}

\* parseInt of a run of digits, radix 10
RECURSIVE parseInt(_)
parseInt(ds) ==
  IF ds = <<>> THEN 0
  ELSE 10 * parseInt(SubSeq(ds, 1, Len(ds) - 1)) + ds[Len(ds)]

\* zipcode: undefined when /\b(\d{5})\b/ does not match
NoZip == 0 - 1

\* a regular expression without the g flag reports its leftmost match:
\* the least index of a set of match positions, 0 when there is none
First(S) == IF S = {} THEN 0 ELSE CHOOSE i \in S : \A j \in S : i <= j

parseSearchMessage(text) ==
  LET idx == 1..Len(text)
      ln == First({i \in idx :
                    /\ i < Len(text)
                    /\ \/ EndsWithName(text[i])
                       \/ /\ i > 1
                          /\ EndsWithLast(text[i - 1])
                          /\ Lower(text[i].s) = "name"})
      zp == First({i \in idx : Len(text[i].ds) = 5})
      gd == First({i \in idx : Lower(text[i].s) \in {"male", "female"}})
      sp == First({i \in idx : i < Len(text) /\ EndsWithSpecialty(text[i])})
  IN [lastname |-> IF ln = 0 THEN NoMatch ELSE text[ln + 1],
      zipcode |-> IF zp = 0 THEN NoZip ELSE parseInt(text[zp].ds),
      gender |-> IF gd = 0 THEN Undefined ELSE Lower(text[gd].s),
      specialty |-> IF sp = 0 THEN NoMatch ELSE text[sp + 1]]

\* !searchParams.zipcode && !searchParams.lastname
MissingRequired(searchParams) ==
  /\ searchParams.zipcode \in {NoZip, 0}
  /\ searchParams.lastname = NoMatch

\* ---------------------------------------------------------------- messages

\* A part of kind "null" is a null element of the parts array.
TextPart(text) == [kind |-> "text", text |-> text]

NullPart == [kind |-> "null", text |-> <<>>]

\* params.message: present is its truthiness, hasParts says that parts is an array
NoMessage == [present |-> FALSE, hasParts |-> FALSE, parts |-> <<>>]

MessageOf(parts) == [present |-> TRUE, hasParts |-> TRUE, parts |-> parts]

MessageWithoutParts == [present |-> TRUE, hasParts |-> FALSE, parts |-> <<>>]

\* the texts of the parts that pass the filter, joined by ' '
RECURSIVE JoinTextParts(_)
JoinTextParts(parts) ==
  IF parts = <<>> THEN <<>>
  ELSE LET p == Head(parts)
       IN (IF p.kind = "text" /\ p.text # <<>> THEN p.text ELSE <<>>)
            \o JoinTextParts(Tail(parts))

\* reading part.kind of a null part raises a TypeError
extractMessageText(userMessage) ==
  IF ~userMessage.present \/ ~userMessage.hasParts
  THEN [threw |-> FALSE, text |-> <<>>]
  ELSE IF \E i \in 1..Len(userMessage.parts) : userMessage.parts[i].kind = "null"
  THEN [threw |-> TRUE, text |-> <<>>]
  ELSE [threw |-> FALSE, text |-> JoinTextParts(userMessage.parts)]

Zip10001 == Digits(<<1, 0, 0, 0, 1>>)

Zip00000 == Digits(<<0, 0, 0, 0, 0>>)

\* ------------------------------------------------------ Search Collaborator

\* A row of the collaborator's result. isNull is a null element of the array:
\* the collaborator hands back records, so no outcome of the model holds one.
Row(name, street, city, class) ==
  [isNull |-> FALSE, Provider_Full_Name |-> name, Provider_Full_Street |-> street,
   Provider_Full_City |-> city, Classification |-> class]

RowSmith == Row(" SMITH JOHN ", "1 MAIN ST", "NEW YORK", "Surgery")

RowDoe == Row("DOE JANE", "2 OAK AVE", "NEW YORK", Undefined)

RowNoName == Row(Undefined, "3 ELM ST", "NEW YORK", "Surgery")

\* What SearchDoctors(gender, lastname, specialty, zipcode) settles with:
\* {statusCode, result}, result an array of rows or (isArray FALSE) a text,
\* or a rejection (threw), as any call into the backend may end.
Returned(statusCode, isArray, rows, text) ==
  [threw |-> FALSE, statusCode |-> statusCode, isArray |-> isArray,
   rows |-> rows, text |-> text]

Rejected == [threw |-> TRUE, statusCode |-> 0, isArray |-> FALSE, rows |-> <<>>, text |-> Undefined]

SearchOutcomes ==
  { Returned(200, TRUE, <<>>, Undefined),
    Returned(200, TRUE, <<RowSmith>>, Undefined),
    Returned(200, TRUE, <<RowSmith, RowDoe>>, Undefined),
    Returned(200, TRUE, <<RowNoName>>, Undefined),
    Returned(200, FALSE, <<>>, "'ok'"),
    Returned(500, FALSE, <<>>, "'db error'"),
    Returned(404, FALSE, <<>>, "'no such table'"),
    Rejected }

\* --------------------------------------------------------- Result Formatter

\* String.prototype.trim on the strings of the rows
Trim(s) == IF s = " SMITH JOHN " THEN "SMITH JOHN" ELSE s

\* row => ({name, address, city, classification})
MapRow(row) ==
  [name |-> row.Provider_Full_Name, address |-> row.Provider_Full_Street,
   city |-> row.Provider_Full_City, classification |-> row.Classification]

\* result.result.map(...): a TypeError when result is no array or a row is null
MapThrows(outcome) ==
  \/ ~outcome.isArray
  \/ \E i \in 1..Len(outcome.rows) : outcome.rows[i].isNull

MapRows(rows) == [i \in 1..Len(rows) |-> MapRow(rows[i])]

\* A response text: the error line, the fixed no-result sentence, or the header
\* "Found <count> doctor[s] matching your search:" and one entry per doctor.
ErrorText(errorMessage) ==
  [kind |-> "error", err |-> errorMessage, count |-> 0, plural |-> FALSE, entries |-> <<>>]

\* doc.name.trim(), doc.address.trim(), doc.city.trim() of an undefined field
FormatThrows(doctors) ==
  \E i \in 1..Len(doctors) :
    Undefined \in {doctors[i].name, doctors[i].address, doctors[i].city}

formatDoctorResults(count, doctors) ==
  IF count = 0
  THEN [kind |-> "none", err |-> Undefined, count |-> 0, plural |-> FALSE, entries |-> <<>>]
  ELSE [kind |-> "found", err |-> Undefined, count |-> count, plural |-> count > 1,
        entries |-> [i \in 1..Len(doctors) |->
                       [index |-> i, name |-> Trim(doctors[i].name),
                        address |-> Trim(doctors[i].address),
                        city |-> Trim(doctors[i].city),
                        classification |-> doctors[i].classification]]]

\* ----------------------------------------------------- tasks and identifiers

\* `task-${Date.now()}-${random}`, `ctx-...`, `msg-...` of the n-th run: fresh
GenTaskIds == <<"'task-1'", "'task-2'", "'task-3'", "'task-4'">>

GenCtxIds == <<"'ctx-1'", "'ctx-2'", "'ctx-3'", "'ctx-4'">>

GenMsgIds == <<"'msg-1'", "'msg-2'", "'msg-3'", "'msg-4'">>

\* a status without an error member
NoError == [code |-> 0, message |-> Undefined]

Status(state) == [state |-> state, error |-> NoError]

AgentMessage(messageId, text) == [messageId |-> messageId, role |-> "agent", text |-> text]

\* the value of a member that is not there
NoTask == [id |-> Undefined, contextId |-> Undefined, status |-> Status(Undefined), history |-> <<>>]

\* ------------------------------------------------------------------ events

\* An event handed to eventBus.publish. final is "true", "false" or, when the
\* event has no such member, "undefined"; text is the error text it carries
\* and results the search results of an artifact.
BusEvent(kind, taskId, state, final, text, results) ==
  [kind |-> kind, taskId |-> taskId, state |-> state, final |-> final, text |-> text,
   results |-> results]

\* --------------------------------------------------- DoctorSearchExecutor

MissingParamsText == "'Missing required parameters'"

InternalErrorText == "'Internal error during doctor search'"

createSuccessResult(task, responseText, messageId) ==
  [id |-> task.id,
   contextId |-> task.contextId,
   status |-> Status("completed"),
   history |-> task.history \o <<AgentMessage(messageId, responseText)>>]

\* an error result that leaves the status of the run in progress
createErrorResultWorking(task, errorMessage, messageId) ==
  [id |-> task.id,
   contextId |-> task.contextId,
   status |-> [state |-> "working", error |-> [code |-> SERVER_ERROR, message |-> errorMessage]],
   history |-> task.history \o <<AgentMessage(messageId, ErrorText(errorMessage))>>]

createErrorResult(task, errorMessage, messageId) ==
  [id |-> task.id,
   contextId |-> task.contextId,
   status |-> [state |-> "failed", error |-> [code |-> SERVER_ERROR, message |-> errorMessage]],
   history |-> task.history \o <<AgentMessage(messageId, ErrorText(errorMessage))>>]

\* what execute publishes before its try block
DoctorSearchPublishes(task) ==
  <<BusEvent("task-status", task.id, "working", Undefined, Undefined, <<>>)>>

\* a run that calls SearchDoctors whatever the message yields
DoctorSearchBeginUnvalidated(userMessage, task, messageId) ==
  LET extracted == extractMessageText(userMessage)
      searchParams == parseSearchMessage(extracted.text)
  IN IF extracted.threw
     THEN [suspended |-> FALSE, searchParams |-> searchParams,
           result |-> createErrorResult(task, InternalErrorText, messageId)]
     ELSE [suspended |-> TRUE, searchParams |-> searchParams, result |-> task]

\* execute up to its await: the run ends there (suspended FALSE, with its
\* result) or is suspended in SearchDoctors with the parsed parameters.
DoctorSearchBegin(userMessage, task, messageId) ==
  LET extracted == extractMessageText(userMessage)
      searchParams == parseSearchMessage(extracted.text)
  IN IF extracted.threw
     THEN [suspended |-> FALSE, searchParams |-> searchParams,
           result |-> createErrorResult(task, InternalErrorText, messageId)]
     ELSE IF MissingRequired(searchParams)
     THEN [suspended |-> FALSE, searchParams |-> searchParams,
           result |-> createErrorResult(task, MissingParamsText, messageId)]
     ELSE [suspended |-> TRUE, searchParams |-> searchParams, result |-> task]

\* execute from the settling of SearchDoctors to its return
DoctorSearchResume(task, outcome, messageId) ==
  IF outcome.threw
  THEN createErrorResult(task, InternalErrorText, messageId)
  ELSE IF outcome.statusCode # 200
  THEN createErrorResult(task, outcome.text, messageId)
  ELSE IF MapThrows(outcome)
  THEN createErrorResult(task, InternalErrorText, messageId)
  ELSE LET doctors == MapRows(outcome.rows)
       IN IF FormatThrows(doctors)
          THEN createErrorResult(task, InternalErrorText, messageId)
          ELSE createSuccessResult(task, formatDoctorResults(Len(doctors), doctors), messageId)

\* ------------------------------------------------------- LambdaA2AAdapter

\* A Lambda response. threw: the handler's promise rejected instead. The body
\* is JSON.stringify of {jsonrpc, result | error, id}: a member whose value is
\* undefined is left out of the body, which id "undefined" stands for.
Response(kind, id, code, message, result) ==
  [threw |-> FALSE, statusCode |-> 200, jsonrpc |-> "'2.0'", kind |-> kind, id |-> id,
   code |-> code, message |-> message, result |-> result]

createJsonRpcSuccessResponse(id, result) ==
  Response("result", id, 0, Undefined, result)

createJsonRpcErrorResponse(id, code, message) ==
  Response("error", id, code, message, NoTask)

\* an uncaught TypeError: no response at all
Threw ==
  [threw |-> TRUE, statusCode |-> 0, jsonrpc |-> Undefined, kind |-> "none", id |-> Undefined,
   code |-> 0, message |-> Undefined, result |-> NoTask]

\* the request is suspended in SearchDoctors: no response yet
Pending ==
  [threw |-> FALSE, statusCode |-> 0, jsonrpc |-> Undefined, kind |-> "pending", id |-> Undefined,
   code |-> 0, message |-> Undefined, result |-> NoTask]

\* params: defined FALSE is a request without params
NoParams == [defined |-> FALSE, id |-> Undefined, contextId |-> Undefined, message |-> NoMessage]

Params(id, contextId, message) ==
  [defined |-> TRUE, id |-> id, contextId |-> contextId, message |-> message]

\* Map.prototype.set
MapSet(store, key, value) ==
  [k \in DOMAIN store \cup {key} |-> IF k = key THEN value ELSE store[k]]

handleTasksGet(store, params, id) ==
  IF ~params.defined \/ ~Truthy(params.id)
  THEN createJsonRpcErrorResponse(id, INVALID_PARAMS, "'Invalid params: id is required'")
  ELSE IF params.id \notin DOMAIN store
  THEN createJsonRpcErrorResponse(id, SERVER_ERROR, "'Task not found'")
  ELSE createJsonRpcSuccessResponse(id, store[params.id])

\* a cancel that leaves a task alone once its run has ended
CancelStoreUnlessEnded(store, params) ==
  IF /\ params.defined /\ Truthy(params.id) /\ params.id \in DOMAIN store
     /\ store[params.id].status.state \notin {"completed", "failed"}
  THEN MapSet(store, params.id, [store[params.id] EXCEPT !.status = Status("canceled")])
  ELSE store

\* the task map after tasks/cancel
CancelStore(store, params) ==
  IF params.defined /\ Truthy(params.id) /\ params.id \in DOMAIN store
  THEN MapSet(store, params.id, [store[params.id] EXCEPT !.status = Status("canceled")])
  ELSE store

handleTasksCancel(store, params, id) ==
  IF ~params.defined \/ ~Truthy(params.id)
  THEN createJsonRpcErrorResponse(id, INVALID_PARAMS, "'Invalid params: id is required'")
  ELSE IF params.id \notin DOMAIN store
  THEN createJsonRpcErrorResponse(id, SERVER_ERROR, "'Task not found'")
  ELSE createJsonRpcSuccessResponse(id, CancelStore(store, params)[params.id])

\* handleMessageSend, lines 120-137: the initial task of the n-th run
InitialTask(params, n) ==
  [id |-> OrElse(params.id, GenTaskIds[n]),
   contextId |-> OrElse(params.contextId, GenCtxIds[n]),
   status |-> Status("submitted"),
   history |-> <<>>]

\* a store keyed by the context of the task
StoreResultByContext(store, taskId, result) == MapSet(store, result.contextId, result)

\* handleMessageSend, line 151: this.tasks.set(taskId, result)
StoreResult(store, taskId, result) == MapSet(store, taskId, result)

\* --------------------------------------------------------- JSON-RPC requests

\* event.body. kind: "absent" (no body), "empty" (''), "garbage" (not JSON),
\* "null", "number", "array" (JSON, not an object) or "object" with its members.
Body(kind, jsonrpc, method, id, params) ==
  [kind |-> kind, jsonrpc |-> jsonrpc, method |-> method, id |-> id, params |-> params]

NoBody == Body("absent", Undefined, Undefined, Undefined, NoParams)

\* JSON.parse(event.body || '{}') throws a SyntaxError
ParseThrows(body) == body.kind = "garbage"

\* const { jsonrpc, method, params, id } = body throws a TypeError on null
DestructureThrows(body) == body.kind = "null"

\* the destructured members: those of the object, undefined for '{}', a
\* number or an array
Envelope(body) ==
  IF body.kind = "object" THEN body
  ELSE Body(body.kind, Undefined, Undefined, Undefined, NoParams)

HelloMessage == MessageOf(<<TextPart(<<Word("hello")>>)>>)

ZipMessage == MessageOf(<<TextPart(<<Word("doctors"), Word("in"), Zip10001>>)>>)

NullPartMessage == MessageOf(<<NullPart>>)

RpcIds == {Undefined, "0", "7"}

RpcMethods == {Undefined, "'message/send'", "'tasks/get'", "'tasks/cancel'", "'message/stream'"}

SendParams ==
  {NoParams, Params("'t1'", "'c1'", NoMessage), Params("'t1'", "'c1'", NullPartMessage)}
    \cup {Params(p[1], p[2], m) :
            p \in {<<"''", Undefined>>, <<"'t1'", "'c1'">>},
            m \in {HelloMessage, ZipMessage}}

LookupParams ==
  {NoParams}
    \cup {Params(i, Undefined, NoMessage) :
            i \in {"'t1'"} \cup {GenTaskIds[n] : n \in 1..MaxSends}}

\* the requests of the model
Requests ==
  {Body(k, Undefined, Undefined, Undefined, NoParams) :
      k \in {"absent", "empty", "garbage", "null", "number", "array"}}
    \cup {Body("object", "'1.0'", m, "7", Params("'t1'", "'c1'", ZipMessage)) :
            m \in RpcMethods}
    \cup {Body("object", j, "'message/send'", i, Params("'t1'", "'c1'", ZipMessage)) :
            j \in {Undefined, "'1.0'", "'2.0'"}, i \in RpcIds}
    \cup {Body("object", "'2.0'", "'message/send'", "7", p) : p \in SendParams}
    \cup {Body("object", "'2.0'", m, "7", p) :
            m \in {"'tasks/get'", "'tasks/cancel'"}, p \in LookupParams}
    \cup {Body("object", "'2.0'", m, i, Params("'t1'", Undefined, NoMessage)) :
            m \in {"'tasks/get'", "'tasks/cancel'"}, i \in RpcIds}
    \cup {Body("object", "'2.0'", m, "7", NoParams) : m \in {Undefined, "'message/stream'"}}

\* what SearchDoctors settles with in the adapter's runs
AdapterOutcomes ==
  { Returned(200, TRUE, <<RowSmith>>, Undefined),
    Returned(200, TRUE, <<RowNoName>>, Undefined),
    Returned(500, FALSE, <<>>, "'db error'"),
    Rejected }

\* ------------------------------------------- index.js: parseSearchArgs

\* A candidate zipcode: undefined, a number, or a string (value is Number(v),
\* numeric FALSE when that is NaN).
ZipUndefined == [type |-> "undefined", numeric |-> FALSE, value |-> 0]

ZipNumber(n) == [type |-> "number", numeric |-> TRUE, value |-> n]

ZipString(n) == [type |-> "string", numeric |-> TRUE, value |-> n]

ZipNotANumber == [type |-> "string", numeric |-> FALSE, value |-> 0]

\* A candidate object for SearchDoctorsArgsSchema; present FALSE: there is none.
Candidate(zipcode, lastname, specialty, gender) ==
  [present |-> TRUE, zipcode |-> zipcode, lastname |-> lastname,
   specialty |-> specialty, gender |-> gender]

NoCandidate ==
  [present |-> FALSE, zipcode |-> ZipUndefined, lastname |-> Undefined,
   specialty |-> Undefined, gender |-> Undefined]

\* z.string().min(1)
NonEmptyString(v) == v \notin {Undefined, "null", "''"}

\* SearchDoctorsArgsSchema.safeParse(candidate).success
SafeParseSuccess(c) ==
  /\ c.zipcode.type \in {"number", "string"}
  /\ c.zipcode.numeric
  /\ c.zipcode.value >= 10000
  /\ c.zipcode.value <= 99999
  /\ NonEmptyString(c.lastname)
  /\ (c.specialty = Undefined \/ NonEmptyString(c.specialty))
  /\ c.gender \in {Undefined, "'male'", "'female'"}

\* parsed.data: the preprocessed zipcode is a number
SafeParseData(c) ==
  [zipcode |-> c.zipcode.value, lastname |-> c.lastname,
   specialty |-> c.specialty, gender |-> c.gender]

NoArgs == [zipcode |-> NoZip, lastname |-> Undefined, specialty |-> Undefined, gender |-> Undefined]

\* The text of the first text part. form: "none" (no text part), "plain" (words
\* without '='), "json" ('{...}' that parses to object), "badjson" ('{' that
\* does not parse) or "kv" (key=value tokens). object: what JSON.parse gives;
\* tokens: the {zipcode, lastname, specialty, gender} read off the tokens.
Text(form, object, tokens) == [form |-> form, object |-> object, tokens |-> tokens]

NoTokens == Candidate(ZipUndefined, Undefined, Undefined, Undefined)

\* parseSearchArgs({requestMetadata, messageMetadata, parts})
parseSearchArgs(requestMetadata, messageMetadata, text) ==
  IF requestMetadata.present /\ SafeParseSuccess(requestMetadata)
  THEN [ok |-> TRUE, args |-> SafeParseData(requestMetadata)]
  ELSE IF messageMetadata.present /\ SafeParseSuccess(messageMetadata)
  THEN [ok |-> TRUE, args |-> SafeParseData(messageMetadata)]
  ELSE IF text.form = "json" /\ SafeParseSuccess(text.object)
  THEN [ok |-> TRUE, args |-> SafeParseData(text.object)]
  ELSE IF text.form # "none" /\ SafeParseSuccess(text.tokens)
  THEN [ok |-> TRUE, args |-> SafeParseData(text.tokens)]
  ELSE [ok |-> FALSE, args |-> NoArgs]

\* ---------------------------------------- index.js: HealthylinkxExecutor

\* requestContext: task is the stored task of the request, if there is one
RequestContext(hasTask, requestMetadata, messageMetadata, text) ==
  [hasTask |-> hasTask, requestMetadata |-> requestMetadata,
   messageMetadata |-> messageMetadata, text |-> text]

ExecTaskId == "'t1'"

\* lines 276-285 and 316-325
HxFailedEvent == BusEvent("status-update", ExecTaskId, "failed", "true", Undefined, <<>>)

\* lines 291-300
HxTaskEvent == BusEvent("task", ExecTaskId, "submitted", Undefined, Undefined, <<>>)

\* lines 303-312
HxWorkingEvent == BusEvent("status-update", ExecTaskId, "working", "false", Undefined, <<>>)

\* lines 339-348
HxArtifactEvent(results) ==
  BusEvent("artifact-update", ExecTaskId, Undefined, Undefined, Undefined, results)

\* lines 350-359
HxCompletedEvent == BusEvent("status-update", ExecTaskId, "completed", "true", Undefined, <<>>)

\* lines 269-312: what execute publishes before it awaits SearchDoctors, or
\* before it returns when the arguments do not parse
HxBeginEvents(ctx, parsed) ==
  IF ~parsed.ok THEN <<HxFailedEvent>>
  ELSE (IF ctx.hasTask THEN <<>> ELSE <<HxTaskEvent>>) \o <<HxWorkingEvent>>

\* lines 330-337: Array.isArray(search.result) ? search.result.map(...) : []
HxResults(outcome) == IF outcome.isArray THEN MapRows(outcome.rows) ELSE <<>>

\* row.Provider_Full_Name of a null row raises a TypeError
HxMapThrows(outcome) ==
  outcome.isArray /\ \E i \in 1..Len(outcome.rows) : outcome.rows[i].isNull

\* does execute reject once SearchDoctors has settled ? (there is no try block)
HxRejects(outcome) == outcome.threw \/ (outcome.statusCode = 200 /\ HxMapThrows(outcome))

\* the completed status ahead of the artifact
HxSettleEventsCompletedFirst(outcome) ==
  IF outcome.threw THEN <<>>
  ELSE IF outcome.statusCode # 200 THEN <<HxFailedEvent>>
  ELSE IF HxMapThrows(outcome) THEN <<>>
  ELSE <<HxCompletedEvent, HxArtifactEvent(HxResults(outcome))>>

\* lines 315-360: what execute publishes once SearchDoctors has settled
HxSettleEvents(outcome) ==
  IF outcome.threw THEN <<>>
  ELSE IF outcome.statusCode # 200 THEN <<HxFailedEvent>>
  ELSE IF HxMapThrows(outcome) THEN <<>>
  ELSE <<HxArtifactEvent(HxResults(outcome)), HxCompletedEvent>>

FullCandidate == Candidate(ZipNumber(98052), "'DOE'", "'Surgeon'", "'male'")

ZipOnlyCandidate == Candidate(ZipNumber(98052), Undefined, Undefined, Undefined)

StringCandidate == Candidate(ZipString(98052), "'DOE'", Undefined, Undefined)

\* the candidate objects of the model
Candidates ==
  { NoCandidate, FullCandidate, ZipOnlyCandidate, StringCandidate,
    Candidate(ZipNumber(123), "'DOE'", Undefined, Undefined),
    Candidate(ZipUndefined, "'DOE'", Undefined, Undefined),
    Candidate(ZipNotANumber, "'DOE'", Undefined, Undefined),
    Candidate(ZipNumber(98052), "'DOE'", Undefined, "'other'") }

\* the message texts of the model
Texts ==
  { Text("none", NoCandidate, NoTokens),
    Text("plain", NoCandidate, NoTokens),
    Text("badjson", NoCandidate, NoTokens),
    Text("json", FullCandidate, NoTokens),
    Text("json", ZipOnlyCandidate, NoTokens),
    Text("kv", NoCandidate, StringCandidate),
    Text("kv", NoCandidate, Candidate(ZipString(98052), Undefined, Undefined, Undefined)) }

RequestContexts ==
  {RequestContext(t, r, m, x) :
     t \in BOOLEAN, r \in Candidates,
     m \in {NoCandidate, FullCandidate, ZipOnlyCandidate}, x \in Texts}

\* ------------------------------------------- index.js: the REST handler

\* The path of a request. kind: "card" (an agent-card path), "send", "stream"
\* (the message:send and message:stream paths), "tasks" (/tasks/<id><suffix>
\* under one of the three prefixes) or "other".
Path(kind, id, suffix) == [kind |-> kind, id |-> id, suffix |-> suffix]

\* An event. server: "lambda" (index.js) or "express" (the Express app);
\* host and proto are the host and x-forwarded-proto headers, domainName is
\* requestContext.domainName, protocol is Express's req.protocol, body is
\* "absent", "garbage" (not JSON) or "object".
Event(server, method, path, host, proto, domainName, protocol, body) ==
  [server |-> server, method |-> method, path |-> path, host |-> host, proto |-> proto,
   domainName |-> domainName, protocol |-> protocol, body |-> body]

\* the events of the model
Events ==
  {Event(sv, "GET", Path("card", Undefined, ""), h, pr, d, c, "absent") :
     sv \in {"lambda", "express"}, h \in {Undefined, "'api.example.com'"},
     pr \in {Undefined, "'http'"}, d \in {Undefined, "'d.example.com'"}, c \in {"'http'", "'https'"}}
    \cup {Event("lambda", "POST", Path("send", Undefined, ""), "'api.example.com'", Undefined,
                Undefined, "'https'", b) : b \in {"absent", "garbage", "object"}}
    \cup {Event("lambda", m, pa, "'api.example.com'", Undefined, Undefined, "'https'", "absent") :
            m \in {"GET", "POST", "OPTIONS"},
            pa \in {Path("stream", Undefined, ""), Path("other", Undefined, "")}
                     \cup {Path("tasks", i, sx) : i \in {"'t1'", "'%E0'"},
                                                  sx \in {"", ":cancel", ":subscribe"}}}

\* process.env.A2A_PUBLIC_BASE_URL || process.env.PUBLIC_BASE_URL
ConfiguredBases == {Undefined, "'https://pub.example.com/'", "'https://pub.example.com'", "'/'"}

\* configured.replace(/\/+$/, '')
StripSlashes(base) ==
  CASE base = "'https://pub.example.com/'" -> "'https://pub.example.com'"
    [] base = "'/'" -> "''"
    [] OTHER -> base

getConfiguredPublicBaseUrl(env) == IF Truthy(env) THEN StripSlashes(env) ELSE Undefined

\* A url `${base}${path}`: base is the configured one (origin "configured",
\* held by host), `${proto}://${host}` or the fixed 'http://localhost:3000'.
Url(origin, proto, host, path) == [origin |-> origin, proto |-> proto, host |-> host, path |-> path]

getPublicBaseUrlFromEvent(env, event) ==
  LET configured == getConfiguredPublicBaseUrl(env)
      host == OrElse(event.host, event.domainName)
      proto == OrElse(event.proto, "'https'")
  IN IF Truthy(configured) THEN Url("configured", Undefined, configured, "")
     ELSE IF Truthy(host) THEN Url("request", proto, host, "")
     ELSE Url("localhost", "'http'", "'localhost:3000'", "")

\* index.js, lines 443-448: dynamicCard
dynamicCard(env, event) ==
  LET base == getPublicBaseUrlFromEvent(env, event)
  IN [url |-> [base EXCEPT !.path = "'/a2a/rest'"],
      additionalInterfaces |-> <<[base EXCEPT !.path = "'/a2a/rest'"]>>]

\* LambdaDeployer.js, lines 489-522: the card of the Express app, which has
\* no additionalInterfaces member
expressCard(event) ==
  [url |-> Url("request", OrElse(event.proto, event.protocol), event.host, "'/a2a'"),
   additionalInterfaces |-> <<>>]

NoCard == [url |-> Url("none", Undefined, Undefined, ""), additionalInterfaces |-> <<>>]

\* What a handler or the SDK's request handler throws: an A2AError with its
\* code, an Error with its message, or a value that is no Error; kind "none":
\* nothing is thrown.
Exception(kind, code, message) == [kind |-> kind, code |-> code, message |-> message]

NoException == Exception("none", 0, Undefined)

\* what requestHandler.sendMessage, getTask and cancelTask end with
SdkOutcomes ==
  { NoException,
    Exception("A2AError", 0 - 32001, "'Task not found'"),
    Exception("A2AError", 0 - 32602, "'Invalid params'"),
    Exception("Error", 0, "'connect ECONNREFUSED 10.0.0.5:3306'"),
    Exception("Error", 0, "'Cannot read properties of undefined'"),
    Exception("value", 0, Undefined) }

\* A response of the REST handler: kind is "json" ({code, message} or a
\* delegated result), "card" or "empty"; delegated names the method of the
\* SDK's request handler that was called.
RestResponse(statusCode, kind, code, message, card, delegated) ==
  [statusCode |-> statusCode, kind |-> kind, code |-> code, message |-> message,
   card |-> card, delegated |-> delegated]

a2aErrorToHttpStatus(code) ==
  CASE code \in {0 - 32700, 0 - 32600, 0 - 32602} -> 400
    [] code \in {0 - 32601, 0 - 32001} -> 404
    [] code = 0 - 32002 -> 409
    [] code = 0 - 32004 -> 400
    [] OTHER -> 500

\* errorResponse(err): the status, code and message of the body
errorResponse(err) ==
  IF err.kind = "A2AError"
  THEN [statusCode |-> a2aErrorToHttpStatus(err.code), code |-> err.code, message |-> err.message]
  ELSE [statusCode |-> 500, code |-> 0 - 32603,
        message |-> IF err.kind = "Error" THEN err.message ELSE "'Internal error'"]

\* decodeURIComponent raises URIError('URI malformed')
DecodeThrows(id) == id = "'%E0'"

\* handleRest: the route of an event, in the order of its tests
Route(event) ==
  LET method == event.method
      path == event.path
  IN IF method = "GET" /\ path.kind = "card" THEN "agent-card"
     ELSE IF method = "POST" /\ path.kind = "send" THEN "message:send"
     ELSE IF method = "POST" /\ path.kind = "stream" THEN "message:stream"
     ELSE IF method = "GET" /\ path.kind = "tasks" THEN "tasks:get"
     ELSE IF method = "POST" /\ path.kind = "tasks" /\ path.suffix = ":cancel" THEN "tasks:cancel"
     ELSE IF method = "POST" /\ path.kind = "tasks" /\ path.suffix = ":subscribe"
     THEN "tasks:subscribe"
     ELSE IF method = "OPTIONS" THEN "options"
     ELSE "not-found"

\* --------------------------------------------------- normalizeSendMessageBody

\* body.message of a message:send. present: the member is an object; role:
\* its role member; isArray: parts is an array; parts: the kind member of each
\* part, undefined for a part {text} without one; messageId: its messageId.
RestMessage(present, role, isArray, parts, messageId) ==
  [present |-> present, role |-> role, isArray |-> isArray, parts |-> parts,
   messageId |-> messageId]

\* the event is not one that reaches sendMessage; its body has no message member
NoSend ==
  [called |-> FALSE,
   body |-> [message |-> RestMessage(FALSE, Undefined, FALSE, <<>>, Undefined)],
   params |-> [message |-> RestMessage(FALSE, Undefined, FALSE, <<>>, Undefined)]]

\* the parsed bodies of the model: every role dialect, parts with and without
\* kind, and a messageId that is absent, empty or given
SendBodies ==
  {NoSend.body}
    \cup {[message |-> RestMessage(TRUE, r, a, IF a THEN ps ELSE <<>>, i)] :
            r \in {Undefined, "'ROLE_USER'", "'ROLE_AGENT'", "'ROLE_UNSPECIFIED'",
                   "'user'", "'agent'"},
            a \in BOOLEAN,
            ps \in {<<"'text'">>, <<Undefined>>, <<"'text'", Undefined>>},
            i \in {Undefined, "''", "'m1'"}}

\* a normalization that leaves a message of the documented dialect as it came
normalizeSendMessageBodyLegacyOnly(body) ==
  LET oldMessage == body.message
      looksLegacy == oldMessage.role \in {"'ROLE_USER'", "'ROLE_AGENT'", "'ROLE_UNSPECIFIED'"}
      hasLegacyParts == oldMessage.isArray
                          /\ \E i \in DOMAIN oldMessage.parts : oldMessage.parts[i] = Undefined
  IN IF looksLegacy \/ hasLegacyParts
     THEN [message |->
             RestMessage(TRUE, IF oldMessage.role = "'ROLE_AGENT'" THEN "'agent'" ELSE "'user'",
                         TRUE,
                         IF oldMessage.isArray
                         THEN [i \in DOMAIN oldMessage.parts |-> "'text'"]
                         ELSE <<"'text'">>,
                         OrElse(oldMessage.messageId, GenMsgIds[1]))]
     ELSE body

\* newId('msg') is the message id of a first run
normalizeSendMessageBody(body) ==
  LET oldMessage == body.message
      \* typeof oldRole === 'string' && oldRole.startsWith('ROLE_')
      looksLegacy == oldMessage.role \in {"'ROLE_USER'", "'ROLE_AGENT'", "'ROLE_UNSPECIFIED'"}
      \* some part has text and no kind
      hasLegacyParts == oldMessage.isArray
                          /\ \E i \in DOMAIN oldMessage.parts : oldMessage.parts[i] = Undefined
  IN IF looksLegacy \/ hasLegacyParts
     THEN [message |->
             RestMessage(TRUE, IF oldMessage.role = "'ROLE_AGENT'" THEN "'agent'" ELSE "'user'",
                         TRUE,
                         IF oldMessage.isArray
                         THEN [i \in DOMAIN oldMessage.parts |-> "'text'"]
                         ELSE <<"'text'">>,
                         OrElse(oldMessage.messageId, GenMsgIds[1]))]
     ELSE IF oldMessage.present
     THEN [message |-> [oldMessage EXCEPT !.messageId = OrElse(oldMessage.messageId, GenMsgIds[1])]]
     ELSE body

\* ------------------------------------ LambdaDeployer.deployLambda, by step

\* the numbers of waitForLambdaReady and of sendWithConflictRetry, in ms
DeadlineMs == 90000

PollDelayMs == 750

PollDelayCapMs == 5000

MaxAttempts == 12

RetryDelayMs == 750

RetryDelayCapMs == 7000

\* ------------------------------------------------------------------- state

VARIABLES
  tasks,        \* adapter: this.tasks, task id -> task
  clock,        \* adapter: message/send runs that drew fresh identifiers
  inflight,     \* adapter: the runs suspended in SearchDoctors
  bus,          \* adapter: what the eventBus of the latest run was handed
  searchCalls,  \* adapter: calls of SearchDoctors so far
  lastReq,      \* adapter: the body of the latest request
  lastResp,     \* adapter: the response to it
  xpc,          \* executor: "idle", "awaiting", "returned" or "rejected"
  xctx,         \* executor: the requestContext of the run
  xargs,        \* executor: the parsed arguments of the run
  xbus,         \* executor: the events of the run, in publication order
  xfinished,    \* executor: calls of eventBus.finished() in the run
  xsearch,      \* executor: what SearchDoctors settled with in the run
  ptext,        \* free text: the text of the message, its tokens
  pout,         \* free text: what DoctorSearchExecutor.execute made of it
  renv,         \* REST: the configured public base URL of the process
  rreq,         \* REST: the latest event
  rresp,        \* REST: the response to it
  rthrown,      \* REST: what handleRest threw on it
  rsend,        \* REST: the body of the event and what sendMessage was handed, if called
  dpc,          \* deployer: "idle", "settling", "configuring", "done" or "threw"
  wait,         \* deployer: the latest call of waitForLambdaReady
  retry,        \* deployer: the call of sendWithConflictRetry
  url           \* deployer: the call of createFunctionUrl

adapterVars == <<tasks, clock, inflight, bus, searchCalls, lastReq, lastResp>>

execVars == <<xpc, xctx, xargs, xbus, xfinished, xsearch>>

parseVars == <<ptext, pout>>

restVars == <<renv, rreq, rresp, rthrown, rsend>>

deployVars == <<dpc, wait, retry, url>>

vars == <<tasks, clock, inflight, bus, searchCalls, lastReq, lastResp,
          xpc, xctx, xargs, xbus, xfinished, xsearch, ptext, pout,
          renv, rreq, rresp, rthrown, rsend, dpc, wait, retry, url>>

\* no run of HealthylinkxExecutor.execute yet
ExecInit ==
  /\ xpc = "idle"
  /\ xctx = RequestContext(FALSE, NoCandidate, NoCandidate, Text("none", NoCandidate, NoTokens))
  /\ xargs = NoArgs
  /\ xbus = <<>>
  /\ xfinished = 0
  /\ xsearch = Rejected

\* new LambdaA2AAdapter(agentCard, executor)
AdapterInit ==
  /\ tasks = <<>>
  /\ clock = 0
  /\ inflight = {}
  /\ bus = <<>>
  /\ searchCalls = 0
  /\ lastReq = NoBody
  /\ lastResp = Pending

\* the texts of the free-text parser: up to MaxTextLen tokens of the vocabulary
Vocabulary ==
  { Word("doctors"), Word("Smith"), Word("Named"), Word("name"), Word("lastname"),
    Word("last"), Word("unnamed"), Word("female"), Word("type"),
    Zip10001, Zip00000, Digits(<<0, 1, 2, 3, 4>>), Digits(<<1, 2, 3>>) }

ParseTexts == UNION {[1..n -> Vocabulary] : n \in 0..MaxTextLen}

\* execute has not run on the text yet
NotParsed == [done |-> FALSE, suspended |-> FALSE, searchParams |-> parseSearchMessage(<<>>),
              result |-> NoTask]

ParseInit ==
  /\ ptext = <<>>
  /\ pout = NotParsed

\* new LambdaDeployer(): deployLambda has not been called
DeployInit ==
  /\ dpc = "idle"
  /\ wait = [pc |-> "idle", now |-> 0, delayMs |-> PollDelayMs, polls |-> 0,
             cfg |-> [threw |-> FALSE, State |-> Undefined, LastUpdateStatus |-> Undefined]]
  /\ retry = [pc |-> "idle", attempt |-> 0, delayMs |-> RetryDelayMs, sends |-> 0, waits |-> 0,
              slept |-> 0, error |-> Undefined]
  /\ url = [pc |-> "idle", how |-> "none", permissionCalls |-> 0]

\* no event yet
RestIdle ==
  /\ rreq = Event("lambda", "GET", Path("other", Undefined, ""), Undefined, Undefined,
                  Undefined, "'https'", "absent")
  /\ rresp = RestResponse(0, "none", 0, Undefined, NoCard, "none")
  /\ rthrown = NoException
  /\ rsend = NoSend

RestInit == renv = Undefined /\ RestIdle

\* ---------------------------------------------------- handleJsonRpc, by route

\* a request answered without a handler: lines 50-72 and the default case
Answer(body, resp) ==
  /\ lastReq' = body
  /\ lastResp' = resp
  /\ UNCHANGED <<tasks, clock, inflight, bus, searchCalls>>
  /\ UNCHANGED <<execVars, parseVars, restVars, deployVars>>

\* lines 51-59: the body is not JSON
RpcParseError ==
  \E body \in Requests :
    /\ inflight = {}
    /\ ParseThrows(body)
    /\ Answer(body, createJsonRpcErrorResponse("null", PARSE_ERROR, "'Parse error: Invalid JSON'"))

\* line 63: destructuring null raises outside every try block
RpcDestructureThrows ==
  \E body \in Requests :
    /\ inflight = {}
    /\ ~ParseThrows(body)
    /\ DestructureThrows(body)
    /\ Answer(body, Threw)

\* a test of the member's presence only
IsJsonRpc2Present(jsonrpc) == jsonrpc # Undefined

\* line 66: jsonrpc !== '2.0' is false
IsJsonRpc2(jsonrpc) == jsonrpc = "'2.0'"

\* has the request reached the switch of line 76 ?
Routed(body) ==
  /\ ~ParseThrows(body)
  /\ ~DestructureThrows(body)
  /\ IsJsonRpc2(Envelope(body).jsonrpc)

\* lines 66-72
RpcInvalidRequest ==
  \E body \in Requests :
    /\ inflight = {}
    /\ ~ParseThrows(body)
    /\ ~DestructureThrows(body)
    /\ ~IsJsonRpc2(Envelope(body).jsonrpc)
    /\ Answer(body, createJsonRpcErrorResponse(OrElse(Envelope(body).id, "null"),
                      INVALID_REQUEST, "'Invalid Request: jsonrpc must be \"2.0\"'"))

\* lines 86-91
RpcMethodNotFound ==
  \E body \in Requests :
    /\ inflight = {}
    /\ Routed(body)
    /\ body.method \notin {"'message/send'", "'tasks/get'", "'tasks/cancel'"}
    /\ Answer(body, createJsonRpcErrorResponse(body.id, METHOD_NOT_FOUND, "'Method not found'"))

RpcTasksGet ==
  \E body \in Requests :
    /\ inflight = {}
    /\ Routed(body)
    /\ body.method = "'tasks/get'"
    /\ Answer(body, handleTasksGet(tasks, body.params, body.id))

RpcTasksCancel ==
  \E body \in Requests :
    /\ inflight = {}
    /\ Routed(body)
    /\ body.method = "'tasks/cancel'"
    /\ lastReq' = body
    /\ lastResp' = handleTasksCancel(tasks, body.params, body.id)
    /\ tasks' = CancelStore(tasks, body.params)
    /\ UNCHANGED <<clock, inflight, bus, searchCalls>>
    /\ UNCHANGED <<execVars, parseVars, restVars, deployVars>>

\* handleMessageSend up to the await of SearchDoctors, or to its end when the
\* executor returns before calling it
RpcMessageSend ==
  \E body \in Requests :
    /\ inflight = {}
    /\ Routed(body)
    /\ body.method = "'message/send'"
    /\ lastReq' = body
    /\ UNCHANGED <<execVars, parseVars, restVars, deployVars>>
    /\ IF ~body.params.defined \/ ~body.params.message.present
       THEN /\ lastResp' = createJsonRpcErrorResponse(body.id, INVALID_PARAMS,
                             "'Invalid params: message is required'")
            /\ UNCHANGED <<tasks, clock, inflight, bus, searchCalls>>
       ELSE /\ clock < MaxSends
            /\ LET n == clock + 1
                   task == InitialTask(body.params, n)
                   run == DoctorSearchBegin(body.params.message, task, GenMsgIds[n])
               IN /\ clock' = n
                  /\ bus' = DoctorSearchPublishes(task)
                  /\ IF run.suspended
                     THEN /\ inflight' = {[rpcId |-> body.id, task |-> task, n |-> n,
                                           searchParams |-> run.searchParams]}
                          /\ searchCalls' = searchCalls + 1
                          /\ lastResp' = Pending
                          /\ UNCHANGED tasks
                     ELSE /\ tasks' = StoreResult(tasks, task.id, run.result)
                          /\ lastResp' = createJsonRpcSuccessResponse(body.id, run.result)
                          /\ UNCHANGED <<inflight, searchCalls>>

\* a run that calls SearchDoctors again when it did not return 200
SearchDoctorsSettlesRetrying ==
  \E ctx \in inflight, outcome \in AdapterOutcomes :
    LET result == DoctorSearchResume(ctx.task, outcome, GenMsgIds[ctx.n])
    IN IF outcome.threw \/ outcome.statusCode # 200
       THEN /\ searchCalls' = searchCalls + 1
            /\ UNCHANGED <<tasks, clock, inflight, bus, lastReq, lastResp>>
            /\ UNCHANGED <<execVars, parseVars, restVars, deployVars>>
       ELSE /\ inflight' = inflight \ {ctx}
            /\ tasks' = StoreResult(tasks, ctx.task.id, result)
            /\ lastResp' = createJsonRpcSuccessResponse(ctx.rpcId, result)
            /\ UNCHANGED <<clock, bus, searchCalls, lastReq>>
            /\ UNCHANGED <<execVars, parseVars, restVars, deployVars>>

\* SearchDoctors settles: the rest of execute, then lines 151-160
SearchDoctorsSettles ==
  \E ctx \in inflight, outcome \in AdapterOutcomes :
    LET result == DoctorSearchResume(ctx.task, outcome, GenMsgIds[ctx.n])
    IN /\ inflight' = inflight \ {ctx}
       /\ tasks' = StoreResult(tasks, ctx.task.id, result)
       /\ lastResp' = createJsonRpcSuccessResponse(ctx.rpcId, result)
       /\ UNCHANGED <<clock, bus, searchCalls, lastReq>>
       /\ UNCHANGED <<execVars, parseVars, restVars, deployVars>>

\* handleTasksCancel, called while a message/send is suspended at line 148: the
\* handler runs to its end between the call of SearchDoctors and its settling
TasksCancelInterleaved ==
  \E body \in Requests :
    /\ inflight # {}
    /\ Routed(body)
    /\ body.method = "'tasks/cancel'"
    /\ lastReq' = body
    /\ lastResp' = handleTasksCancel(tasks, body.params, body.id)
    /\ tasks' = CancelStore(tasks, body.params)
    /\ UNCHANGED <<clock, inflight, bus, searchCalls>>
    /\ UNCHANGED <<execVars, parseVars, restVars, deployVars>>

\* ------------------------------------- HealthylinkxExecutor.execute, by step

\* lines 266-312: a run of execute up to its first await, on a fresh event bus
HxExecute ==
  \E ctx \in RequestContexts :
    /\ xpc # "awaiting"
    /\ LET parsed == parseSearchArgs(ctx.requestMetadata, ctx.messageMetadata, ctx.text)
       IN /\ xctx' = ctx
          /\ xargs' = parsed.args
          /\ xbus' = HxBeginEvents(ctx, parsed)
          /\ xfinished' = IF parsed.ok THEN 0 ELSE 1
          /\ xpc' = IF parsed.ok THEN "awaiting" ELSE "returned"
          /\ xsearch' = Rejected
    /\ UNCHANGED <<adapterVars, parseVars, restVars, deployVars>>

\* lines 314-361: SearchDoctors settles and execute runs to its end
HxSearchSettles ==
  \E outcome \in SearchOutcomes :
    /\ xpc = "awaiting"
    /\ xsearch' = outcome
    /\ xbus' = xbus \o HxSettleEvents(outcome)
    /\ xfinished' = IF HxRejects(outcome) THEN xfinished ELSE xfinished + 1
    /\ xpc' = IF HxRejects(outcome) THEN "rejected" ELSE "returned"
    /\ UNCHANGED <<xctx, xargs>>
    /\ UNCHANGED <<adapterVars, parseVars, restVars, deployVars>>

\* --------------------------------------- LambdaDeployer.deployLambda, by step

\* lines 234-323: the function is created, or its code updated when it exists,
\* and waitForLambdaReady is called; any other error leaves deployLambda
deployLambda ==
  /\ dpc = "idle"
  /\ \E create \in {"ok", "ResourceConflictException", "AccessDeniedException"},
        update \in {"ok", "ServiceException"} :
       IF create = "ok" \/ (create = "ResourceConflictException" /\ update = "ok")
       THEN /\ dpc' = "settling"
            /\ wait' = [wait EXCEPT !.pc = "polling", !.now = 0, !.delayMs = PollDelayMs,
                                    !.polls = 0]
       ELSE /\ dpc' = "threw"
            /\ UNCHANGED wait
  /\ UNCHANGED <<retry, url>>
  /\ UNCHANGED <<adapterVars, execVars, parseVars, restVars>>

\* a wait that lets the exception of a poll escape
waitForLambdaReadyRethrowing ==
  /\ wait.pc = "polling"
  /\ IF wait.now >= DeadlineMs
     THEN wait' = [wait EXCEPT !.pc = "returned"]
     ELSE \E cfg \in [threw : BOOLEAN, State : {Undefined, "'Pending'", "'Active'"},
                      LastUpdateStatus : {Undefined, "'Successful'", "'InProgress'"}],
             latency \in {0, 1000} :
            /\ cfg.threw => (cfg.State = Undefined /\ cfg.LastUpdateStatus = Undefined)
            /\ ~cfg.threw => cfg.State # Undefined
            /\ IF cfg.threw
               THEN wait' = [wait EXCEPT !.pc = "threw", !.now = @ + latency, !.polls = @ + 1,
                                         !.cfg = cfg]
               ELSE IF /\ cfg.State = "'Active'"
                       /\ (~Truthy(cfg.LastUpdateStatus) \/ cfg.LastUpdateStatus = "'Successful'")
               THEN wait' = [wait EXCEPT !.pc = "returned", !.now = @ + latency, !.polls = @ + 1,
                                         !.cfg = cfg]
               ELSE wait' = [pc |-> "polling", now |-> wait.now + latency + wait.delayMs,
                             delayMs |-> IF (wait.delayMs * 14 + 5) \div 10 < PollDelayCapMs
                                         THEN (wait.delayMs * 14 + 5) \div 10
                                         ELSE PollDelayCapMs,
                             polls |-> wait.polls + 1, cfg |-> cfg]
  /\ UNCHANGED <<dpc, retry, url>>
  /\ UNCHANGED <<adapterVars, execVars, parseVars, restVars>>

\* lines 250-268, one turn of the loop: past the deadline the wait returns;
\* otherwise GetFunctionConfiguration answers, or throws, after some latency,
\* and the wait returns on a ready function or sleeps delayMs and lengthens it.
\* now is Date.now() since the call; Math.round(d * 1.4) is (14 d + 5) div 10.
waitForLambdaReady ==
  /\ wait.pc = "polling"
  /\ IF wait.now >= DeadlineMs
     THEN wait' = [wait EXCEPT !.pc = "returned"]
     ELSE \E cfg \in [threw : BOOLEAN, State : {Undefined, "'Pending'", "'Active'"},
                      LastUpdateStatus : {Undefined, "'Successful'", "'InProgress'"}],
             latency \in {0, 1000} :
            /\ cfg.threw => (cfg.State = Undefined /\ cfg.LastUpdateStatus = Undefined)
            /\ ~cfg.threw => cfg.State # Undefined
            /\ IF /\ ~cfg.threw
                  /\ cfg.State = "'Active'"
                  /\ (~Truthy(cfg.LastUpdateStatus) \/ cfg.LastUpdateStatus = "'Successful'")
               THEN wait' = [wait EXCEPT !.pc = "returned", !.now = @ + latency, !.polls = @ + 1,
                                         !.cfg = cfg]
               ELSE wait' = [pc |-> "polling", now |-> wait.now + latency + wait.delayMs,
                             delayMs |-> IF (wait.delayMs * 14 + 5) \div 10 < PollDelayCapMs
                                         THEN (wait.delayMs * 14 + 5) \div 10
                                         ELSE PollDelayCapMs,
                             polls |-> wait.polls + 1, cfg |-> cfg]
  /\ UNCHANGED <<dpc, retry, url>>
  /\ UNCHANGED <<adapterVars, execVars, parseVars, restVars>>

\* lines 326-332: createFunctionUrl (lines 122-174) on the answers of its SDK
\* calls, then the call of sendWithConflictRetry. Both paths that obtain a URL
\* return it from inside the try statement, before line 169 is reached.
createFunctionUrl ==
  /\ dpc = "settling"
  /\ wait.pc = "returned"
  /\ \E get \in {"ok", "ResourceNotFoundException", "ServiceException"},
        update \in {"ok", "ResourceNotFoundException", "ServiceException"},
        create \in {"ok", "ServiceException"} :
       LET updated == get = "ok" /\ update = "ok"
           caught == IF get = "ok" THEN update ELSE get
           created == ~updated /\ caught = "ResourceNotFoundException" /\ create = "ok"
       IN IF updated \/ created
          THEN /\ url' = [url EXCEPT !.pc = "returned",
                                     !.how = IF updated THEN "updated" ELSE "created"]
               /\ dpc' = "configuring"
               /\ retry' = [retry EXCEPT !.pc = "loop", !.attempt = 0, !.delayMs = RetryDelayMs,
                                         !.sends = 0, !.waits = 0]
          ELSE /\ url' = [url EXCEPT !.pc = "threw"]
               /\ dpc' = "threw"
               /\ UNCHANGED retry
  /\ UNCHANGED wait
  /\ UNCHANGED <<adapterVars, execVars, parseVars, restVars>>

\* lines 276-278 and 291: the head of the loop, which calls waitForLambdaReady
\* or, after the last attempt, throws
RetryAwaitsReady ==
  /\ dpc = "configuring"
  /\ retry.pc = "loop"
  /\ IF retry.attempt < MaxAttempts
     THEN /\ retry' = [retry EXCEPT !.pc = "waiting", !.waits = @ + 1]
          /\ wait' = [wait EXCEPT !.pc = "polling", !.now = 0, !.delayMs = PollDelayMs,
                                  !.polls = 0]
          /\ UNCHANGED dpc
     ELSE /\ retry' = [retry EXCEPT !.pc = "threw", !.error = "'Lambda remained busy'"]
          /\ dpc' = "threw"
          /\ UNCHANGED wait
  /\ UNCHANGED url
  /\ UNCHANGED <<adapterVars, execVars, parseVars, restVars>>

\* a retry on every error that is an object
RetrySendsOnAnyError ==
  /\ retry.pc = "waiting"
  /\ wait.pc = "returned"
  /\ \E outcome \in {"ok", "name:ResourceConflictException", "Code:ResourceConflictException",
                     "name:TooManyRequestsException", "null"} :
       IF outcome = "ok"
       THEN /\ retry' = [retry EXCEPT !.pc = "returned", !.sends = @ + 1, !.error = Undefined]
            /\ dpc' = "done"
       ELSE IF outcome # "null"
       THEN /\ retry' = [retry EXCEPT
                           !.pc = "loop", !.sends = @ + 1, !.error = outcome,
                           !.attempt = @ + 1, !.slept = retry.delayMs,
                           !.delayMs = IF (retry.delayMs * 15 + 5) \div 10 < RetryDelayCapMs
                                       THEN (retry.delayMs * 15 + 5) \div 10
                                       ELSE RetryDelayCapMs]
            /\ UNCHANGED dpc
       ELSE /\ retry' = [retry EXCEPT !.pc = "threw", !.sends = @ + 1, !.error = outcome]
            /\ dpc' = "threw"
  /\ UNCHANGED <<wait, url>>
  /\ UNCHANGED <<adapterVars, execVars, parseVars, restVars>>

\* lines 279-289: waitForLambdaReady has returned and the command is sent. A
\* conflict, by the name or the Code of the error, counts an attempt, sleeps
\* delayMs and lengthens it; Math.round(d * 1.5) is (15 d + 5) div 10.
RetrySends ==
  /\ retry.pc = "waiting"
  /\ wait.pc = "returned"
  /\ \E outcome \in {"ok", "name:ResourceConflictException", "Code:ResourceConflictException",
                     "name:TooManyRequestsException", "null"} :
       IF outcome = "ok"
       THEN /\ retry' = [retry EXCEPT !.pc = "returned", !.sends = @ + 1, !.error = Undefined]
            /\ dpc' = "done"
       ELSE IF outcome \in {"name:ResourceConflictException", "Code:ResourceConflictException"}
       THEN /\ retry' = [retry EXCEPT
                           !.pc = "loop", !.sends = @ + 1, !.error = outcome,
                           !.attempt = @ + 1, !.slept = retry.delayMs,
                           !.delayMs = IF (retry.delayMs * 15 + 5) \div 10 < RetryDelayCapMs
                                       THEN (retry.delayMs * 15 + 5) \div 10
                                       ELSE RetryDelayCapMs]
            /\ UNCHANGED dpc
       ELSE /\ retry' = [retry EXCEPT !.pc = "threw", !.sends = @ + 1, !.error = outcome]
            /\ dpc' = "threw"
  /\ UNCHANGED <<wait, url>>
  /\ UNCHANGED <<adapterVars, execVars, parseVars, restVars>>

\* ------------------------------------------------------------ specifications

Init == AdapterInit /\ ExecInit /\ ParseInit /\ RestInit /\ DeployInit

\* the JSON-RPC adapter, one request at a time
Next ==
  \/ RpcParseError
  \/ RpcDestructureThrows
  \/ RpcInvalidRequest
  \/ RpcMethodNotFound
  \/ RpcTasksGet
  \/ RpcTasksCancel
  \/ RpcMessageSend
  \/ SearchDoctorsSettles

Spec == Init /\ [][Next]_vars

\* the adapter under interleaved requests: a tasks/cancel may be handled while
\* a message/send awaits SearchDoctors; lastResp is then the latest response
SpecConc ==
  Init /\ [][\/ RpcMessageSend
             \/ RpcTasksCancel
             \/ TasksCancelInterleaved
             \/ SearchDoctorsSettles]_vars

\* runs of HealthylinkxExecutor.execute
SpecExec == Init /\ [][HxExecute \/ HxSearchSettles]_vars

\* DoctorSearchExecutor.execute, lines 334-373, on a message of one text part:
\* the text is extracted, parsed and validated
ParseMessage ==
  /\ ~pout.done
  /\ LET task == InitialTask(Params(Undefined, Undefined, MessageOf(<<TextPart(ptext)>>)), 1)
         run == DoctorSearchBegin(MessageOf(<<TextPart(ptext)>>), task, GenMsgIds[1])
     IN pout' = [done |-> TRUE, suspended |-> run.suspended,
                 searchParams |-> run.searchParams, result |-> run.result]
  /\ UNCHANGED <<ptext, adapterVars, execVars, restVars, deployVars>>

InitParse ==
  /\ AdapterInit
  /\ ExecInit
  /\ RestInit
  /\ DeployInit
  /\ ptext \in ParseTexts
  /\ pout = NotParsed

\* the free-text path, on every text of the vocabulary
SpecParse == InitParse /\ [][ParseMessage]_vars

\* ------------------------------------------------ index.js handler, by route

\* handler: the response handleRest returned
RestReturns(event, resp) ==
  /\ rreq' = event
  /\ rresp' = resp
  /\ rthrown' = NoException
  /\ UNCHANGED <<renv, adapterVars, execVars, parseVars, deployVars>>

\* handler, lines 543-565: handleRest threw err
RestCatches(event, err, delegated) ==
  LET body == errorResponse(err)
  IN /\ rreq' = event
     /\ rresp' = RestResponse(body.statusCode, "json", body.code, body.message, NoCard, delegated)
     /\ rthrown' = err
     /\ UNCHANGED <<renv, adapterVars, execVars, parseVars, deployVars>>

\* a call of the SDK's request handler: its result, or what it throws
RestDelegates(event, delegated) ==
  \E outcome \in SdkOutcomes :
    IF outcome = NoException
    THEN RestReturns(event, RestResponse(200, "json", 0, Undefined, NoCard, delegated))
    ELSE RestCatches(event, outcome, delegated)

\* lines 440-450
RestAgentCard ==
  \E event \in Events :
    /\ event.server = "lambda"
    /\ rsend' = NoSend
    /\ Route(event) = "agent-card"
    /\ RestReturns(event, RestResponse(200, "card", 0, Undefined, dynamicCard(renv, event), "none"))

\* lines 453-477
RestMessageSend ==
  \E event \in Events :
    /\ event.server = "lambda"
    /\ Route(event) = "message:send"
    /\ CASE event.body = "absent" ->
              /\ RestReturns(event, RestResponse(400, "json", 0 - 32602,
                                                 "'Missing request body'", NoCard, "none"))
              /\ rsend' = NoSend
         [] event.body = "garbage" ->
              /\ RestCatches(event, Exception("A2AError", 0 - 32700, "'Invalid JSON'"), "none")
              /\ rsend' = NoSend
         [] OTHER ->
              \E body \in SendBodies :
                /\ rsend' = [called |-> TRUE, body |-> body,
                             params |-> normalizeSendMessageBody(body)]
                /\ RestDelegates(event, "sendMessage")

\* lines 480-483
RestMessageStream ==
  \E event \in Events :
    /\ event.server = "lambda"
    /\ rsend' = NoSend
    /\ Route(event) = "message:stream"
    /\ RestReturns(event, RestResponse(400, "json", 0 - 32004,
                                       "'Unsupported operation: message:stream'", NoCard, "none"))

\* lines 486-493
RestTasksGet ==
  \E event \in Events :
    /\ event.server = "lambda"
    /\ rsend' = NoSend
    /\ Route(event) = "tasks:get"
    /\ IF DecodeThrows(event.path.id)
       THEN RestCatches(event, Exception("Error", 0, "'URI malformed'"), "none")
       ELSE RestDelegates(event, "getTask")

\* lines 496-502
RestTasksCancel ==
  \E event \in Events :
    /\ event.server = "lambda"
    /\ rsend' = NoSend
    /\ Route(event) = "tasks:cancel"
    /\ IF DecodeThrows(event.path.id)
       THEN RestCatches(event, Exception("Error", 0, "'URI malformed'"), "none")
       ELSE RestDelegates(event, "cancelTask")

\* lines 505-509
RestTasksSubscribe ==
  \E event \in Events :
    /\ event.server = "lambda"
    /\ rsend' = NoSend
    /\ Route(event) = "tasks:subscribe"
    /\ RestReturns(event, RestResponse(400, "json", 0 - 32004,
                                       "'Unsupported operation: tasks:subscribe'", NoCard, "none"))

\* lines 511-519
RestOptions ==
  \E event \in Events :
    /\ event.server = "lambda"
    /\ rsend' = NoSend
    /\ Route(event) = "options"
    /\ RestReturns(event, RestResponse(204, "empty", 0, Undefined, NoCard, "none"))

\* lines 521-522
RestNotFound ==
  \E event \in Events :
    /\ event.server = "lambda"
    /\ rsend' = NoSend
    /\ Route(event) = "not-found"
    /\ RestReturns(event, RestResponse(404, "json", 0 - 32601, "'Not found'", NoCard, "none"))

\* LambdaDeployer.js, lines 487-523: app.get('/.well-known/agent.json')
ExpressAgentCard ==
  \E event \in Events :
    /\ event.server = "express"
    /\ rsend' = NoSend
    /\ event.method = "GET"
    /\ event.path.kind = "card"
    /\ RestReturns(event, RestResponse(200, "card", 0, Undefined, expressCard(event), "none"))

\* the process starts with its environment
InitRest ==
  /\ AdapterInit
  /\ ExecInit
  /\ ParseInit
  /\ DeployInit
  /\ renv \in ConfiguredBases
  /\ RestIdle

NextRest ==
  \/ RestAgentCard
  \/ RestMessageSend
  \/ RestMessageStream
  \/ RestTasksGet
  \/ RestTasksCancel
  \/ RestTasksSubscribe
  \/ RestOptions
  \/ RestNotFound
  \/ ExpressAgentCard

\* the REST handler and the agent card of the Express app
SpecRest == InitRest /\ [][NextRest]_vars

\* a run of deployLambda against every answer of the Lambda service
SpecDeploy ==
  Init /\ [][\/ deployLambda
             \/ waitForLambdaReady
             \/ createFunctionUrl
             \/ RetryAwaitsReady
             \/ RetrySends]_vars

\* ------------------------------------------------------------------ claims

\* C1. In every run of the executor a status event "working" with final false
\* is published before the run's terminal status: every final event of the
\* bus has such an event ahead of it.
C1_WorkingBeforeTerminal ==
  \A i \in 1..Len(xbus) :
    xbus[i].final = "true" =>
      \E j \in 1..(i - 1) : xbus[j].state = "working" /\ xbus[j].final = "false"

\* C2. When a run has ended, the last event it published has final true and
\* it is the only event with final true: stated of the run behind a
\* message/send that has been answered with a task.
C2_LastEventFinal ==
  (lastReq.method = "'message/send'" /\ lastResp.kind = "result") =>
    /\ bus # <<>>
    /\ bus[Len(bus)].final = "true"
    /\ Cardinality({i \in 1..Len(bus) : bus[i].final = "true"}) = 1

\* C3. When SearchDoctors has returned statusCode 200 the run has published
\* exactly one artifact-update, carrying the mapped rows of the result, ahead
\* of its completed status with final true; a run that ended otherwise (the
\* arguments did not parse, SearchDoctors returned another status or rejected)
\* has published no artifact-update.
C3_ArtifactBeforeCompleted ==
  LET over == xpc \in {"returned", "rejected"}
      searched == xargs # NoArgs
      ok == searched /\ ~xsearch.threw /\ xsearch.statusCode = 200
      arts == {i \in 1..Len(xbus) : xbus[i].kind = "artifact-update"}
      done == {i \in 1..Len(xbus) : xbus[i].state = "completed"}
      rows == IF xsearch.isArray THEN xsearch.rows ELSE <<>>
  IN over =>
       IF ok
       THEN /\ Cardinality(arts) = 1
            /\ Cardinality(done) = 1
            /\ \A i \in arts, j \in done :
                 /\ i < j
                 /\ j = Len(xbus)
                 /\ xbus[j].final = "true"
                 /\ Len(xbus[i].results) = Len(rows)
                 /\ \A k \in 1..Len(rows) :
                      /\ xbus[i].results[k].name = rows[k].Provider_Full_Name
                      /\ xbus[i].results[k].address = rows[k].Provider_Full_Street
                      /\ xbus[i].results[k].city = rows[k].Provider_Full_City
                      /\ xbus[i].results[k].classification = rows[k].Classification
       ELSE arts = {}

\* C3: a run that found two doctors has ended with its artifact published
C3_Witness ==
  /\ xpc = "returned"
  /\ xargs # NoArgs
  /\ xsearch.statusCode = 200
  /\ Len(xsearch.rows) = 2
  /\ \E i \in 1..Len(xbus) : xbus[i].kind = "artifact-update" /\ Len(xbus[i].results) = 2

\* C4. When SearchDoctors returns a statusCode other than 200 the run ends
\* failed and its failed status event carries the error text of the result.
C4_FailedCarriesErrorText ==
  (xpc = "returned" /\ xargs # NoArgs /\ ~xsearch.threw /\ xsearch.statusCode # 200) =>
    /\ xbus # <<>>
    /\ xbus[Len(xbus)].state = "failed"
    /\ xbus[Len(xbus)].text = xsearch.text

\* C5. An exception raised while execute runs is caught inside it: execute
\* never rejects, and a run that is over has published a terminal status.
C5_ExecuteNeverRejects ==
  /\ xpc # "rejected"
  /\ xpc = "returned" => (xbus # <<>> /\ xbus[Len(xbus)].state \in {"completed", "failed"})

\* C6. canceled is terminal for a stored task: no step, a message/send naming
\* the task's id included, changes the stored status of a canceled task.
C6_CanceledIsTerminal ==
  [][\A k \in DOMAIN tasks :
       tasks[k].status.state = "canceled" =>
         (k \in DOMAIN tasks' /\ tasks'[k].status.state = "canceled")]_vars

\* C7. For every task of the store, whatever its status, a tasks/cancel of its
\* id is answered with a result and a tasks/get issued next is answered with
\* that task, its status canceled.
C7_CancelAlwaysSucceeds ==
  \A k \in DOMAIN tasks :
    LET params == Params(k, Undefined, NoMessage)
        canceled == handleTasksCancel(tasks, params, "7")
        got == handleTasksGet(CancelStore(tasks, params), params, "7")
    IN /\ canceled.kind = "result"
       /\ canceled.result.id = k
       /\ canceled.result.status.state = "canceled"
       /\ got.kind = "result"
       /\ got.result.id = k
       /\ got.result.contextId = tasks[k].contextId
       /\ got.result.history = tasks[k].history
       /\ got.result.status.state = "canceled"

\* C7: a tasks/cancel has been answered with a task whose run had completed
C7_Witness ==
  /\ lastReq.method = "'tasks/cancel'"
  /\ lastResp.kind = "result"
  /\ lastResp.result.status.state = "canceled"
  /\ lastResp.result.history # <<>>
  /\ lastResp.result.history[1].text.kind = "found"
  /\ tasks[lastReq.params.id].status.state = "canceled"

\* C8. Once a message/send has been answered with a task, a tasks/get of the
\* id of that task issued next is answered with a task of the same id,
\* contextId and status.
C8_SendThenGet ==
  (lastReq.method = "'message/send'" /\ lastResp.kind = "result") =>
    LET got == handleTasksGet(tasks, Params(lastResp.result.id, Undefined, NoMessage), "7")
    IN /\ got.kind = "result"
       /\ got.result.id = lastResp.result.id
       /\ got.result.contextId = lastResp.result.contextId
       /\ got.result.status = lastResp.result.status

\* C8: a message/send without an id has been answered with a completed task
\* under a generated id, after an earlier send had failed under the caller's
C8_Witness ==
  /\ lastReq.method = "'message/send'"
  /\ lastReq.params.id = "''"
  /\ lastResp.kind = "result"
  /\ lastResp.result.status.state = "completed"
  /\ lastResp.result.id \in {GenTaskIds[n] : n \in 1..MaxSends}
  /\ "'t1'" \in DOMAIN tasks
  /\ tasks["'t1'"].status.state = "failed"

\* C9. Every request, whatever its body, is answered with an envelope: the
\* handler never throws, and its response has statusCode 200 and a body with
\* jsonrpc '2.0' and a result or an error.
C9_AlwaysAnEnvelope ==
  lastResp.kind # "pending" =>
    /\ ~lastResp.threw
    /\ lastResp.statusCode = 200
    /\ lastResp.jsonrpc = "'2.0'"
    /\ lastResp.kind \in {"result", "error"}

\* C10. A request whose body parses to a value other than null and whose
\* jsonrpc member is not '2.0' (absent included) is answered with error -32600
\* whatever its method, and the step touches neither the task map nor the
\* executor (its event bus, its runs) nor SearchDoctors.
C10_InvalidRequestTouchesNothing ==
  [][(/\ inflight = {}
      /\ lastReq'.kind \notin {"garbage", "null"}
      /\ Envelope(lastReq').jsonrpc # "'2.0'")
       => /\ lastResp'.kind = "error"
          /\ lastResp'.code = 0 - 32600
          /\ UNCHANGED <<tasks, clock, inflight, bus, searchCalls>>]_vars

\* C10: a message/send of version '1.0' has been refused while tasks are stored
C10_Witness ==
  /\ lastReq.jsonrpc = "'1.0'"
  /\ lastReq.method = "'message/send'"
  /\ lastReq.params.message.present
  /\ lastResp.kind = "error"
  /\ lastResp.code = INVALID_REQUEST
  /\ DOMAIN tasks # {}

\* C11. A message/send whose message text yields neither a zipcode nor a
\* lastname is answered with a JSON-RPC error of code -32602, not with a result.
C11_NoFieldsIsInvalidParams ==
  LET message == lastReq.params.message
      extracted == extractMessageText(message)
      searchParams == parseSearchMessage(extracted.text)
  IN (/\ lastReq.kind = "object"
      /\ lastReq.jsonrpc = "'2.0'"
      /\ lastReq.method = "'message/send'"
      /\ lastReq.params.defined
      /\ message.present
      /\ ~extracted.threw
      /\ searchParams.zipcode = NoZip
      /\ searchParams.lastname = NoMatch
      /\ lastResp.kind # "pending")
       => (lastResp.kind = "error" /\ lastResp.code = 0 - 32602)

\* C12. A request of the streaming method message/stream is answered with the
\* unsupported-operation error -32004.
C12_StreamIsUnsupported ==
  (/\ lastReq.kind = "object"
   /\ lastReq.jsonrpc = "'2.0'"
   /\ lastReq.method = "'message/stream'")
    => (lastResp.kind = "error" /\ lastResp.code = 0 - 32004)

\* C13. A tasks/get or tasks/cancel of an id that is not in the task map is
\* answered with the task-not-found error -32001.
C13_TaskNotFoundCode ==
  (/\ lastReq.kind = "object"
   /\ lastReq.jsonrpc = "'2.0'"
   /\ lastReq.method \in {"'tasks/get'", "'tasks/cancel'"}
   /\ lastReq.params.defined
   /\ Truthy(lastReq.params.id)
   /\ lastReq.params.id \notin DOMAIN tasks)
    => (lastResp.kind = "error" /\ lastResp.code = 0 - 32001)

\* C14. A request with a protocol error (body that is not JSON, jsonrpc other
\* than '2.0', unknown method, message/send without message) or a validation
\* error (a message text with neither zipcode nor lastname) is answered in the
\* step that receives it, with an error or a failed task, and SearchDoctors is
\* not called in that step.
C14_NoSearchOnError ==
  [][LET body == lastReq'
         env == Envelope(body)
         extracted == extractMessageText(env.params.message)
         searchParams == parseSearchMessage(extracted.text)
         protocolError ==
           \/ body.kind = "garbage"
           \/ body.kind \notin {"garbage", "null"} /\ env.jsonrpc # "'2.0'"
           \/ /\ env.jsonrpc = "'2.0'"
              /\ env.method \notin {"'message/send'", "'tasks/get'", "'tasks/cancel'"}
           \/ /\ env.jsonrpc = "'2.0'"
              /\ env.method = "'message/send'"
              /\ (~env.params.defined \/ ~env.params.message.present)
         validationError ==
           /\ env.jsonrpc = "'2.0'"
           /\ env.method = "'message/send'"
           /\ env.params.defined
           /\ env.params.message.present
           /\ ~extracted.threw
           /\ searchParams.zipcode \in {NoZip, 0}
           /\ searchParams.lastname = NoMatch
     IN (inflight = {} /\ (protocolError \/ validationError))
          => /\ searchCalls' = searchCalls
             /\ inflight' = {}
             /\ \/ lastResp'.kind = "error"
                \/ lastResp'.kind = "result" /\ lastResp'.result.status.state = "failed"]_vars

\* C14: a message/send without matchable fields has been answered with a failed
\* task, after an earlier run had called SearchDoctors once
C14_Witness ==
  /\ lastReq.method = "'message/send'"
  /\ lastReq.jsonrpc = "'2.0'"
  /\ lastReq.params.message = HelloMessage
  /\ lastResp.kind = "result"
  /\ lastResp.result.status.error.message = MissingParamsText
  /\ searchCalls = 1
  /\ clock = 2

\* C15. No retry: a step calls SearchDoctors at most once and only as it starts
\* a new message/send run; the step in which SearchDoctors settles ends the
\* run, stores its task with a terminal status and calls nothing again.
C15_NoRetry ==
  [][/\ searchCalls' \in {searchCalls, searchCalls + 1}
     /\ searchCalls' = searchCalls + 1 => (inflight = {} /\ clock' = clock + 1)
     /\ inflight # {} =>
          /\ inflight' = {}
          /\ searchCalls' = searchCalls
          /\ \A ctx \in inflight :
               /\ ctx.task.id \in DOMAIN tasks'
               /\ tasks'[ctx.task.id].status.state \in {"completed", "failed"}]_vars

\* C15: a run has ended failed on the collaborator's error after one call
C15_Witness ==
  /\ inflight = {}
  /\ lastReq.method = "'message/send'"
  /\ lastResp.kind = "result"
  /\ lastResp.result.status.state = "failed"
  /\ lastResp.result.status.error.message = "'db error'"
  /\ searchCalls = 1
  /\ clock = 1

\* C18. The executor alone changes the status of a task: a step changes the
\* stored status of a task only by storing the result of a message/send run.
C18_ExecutorSoleMutator ==
  [][\A k \in DOMAIN tasks :
       /\ k \in DOMAIN tasks'
       /\ tasks'[k].status # tasks[k].status => lastReq'.method = "'message/send'"]_vars

\* C16. A search query in which only zipcode is set, an integer in
\* 10000..99999, is extracted: a run whose only source of arguments (request
\* metadata, message metadata, JSON text or key=value tokens) holds such a
\* query has parsed arguments with that zipcode.
C16_ZipOnlyExtracts ==
  LET zipOnly(c) ==
        /\ c.present
        /\ c.zipcode.numeric
        /\ c.zipcode.value \in 10000..99999
        /\ c.lastname = Undefined
        /\ c.specialty = Undefined
        /\ c.gender = Undefined
      noText == xctx.text.form = "none"
      query ==
        IF xctx.requestMetadata.present /\ ~xctx.messageMetadata.present /\ noText
        THEN xctx.requestMetadata
        ELSE IF ~xctx.requestMetadata.present /\ xctx.messageMetadata.present /\ noText
        THEN xctx.messageMetadata
        ELSE IF ~xctx.requestMetadata.present /\ ~xctx.messageMetadata.present
        THEN (IF xctx.text.form = "json" THEN xctx.text.object
              ELSE IF xctx.text.form = "kv" THEN xctx.text.tokens
              ELSE NoCandidate)
        ELSE NoCandidate
  IN (xpc # "idle" /\ zipOnly(query)) =>
       (xargs # NoArgs /\ xargs.zipcode = query.zipcode.value)

\* C17. A message text that holds neither a 5-digit zipcode nor a word "named"
\* followed by a word fails extraction with the invalid-parameters outcome:
\* execute ends failed on the missing parameters without calling SearchDoctors.
C17_NoZipNoNamedFails ==
  LET hasZip == \E i \in 1..Len(ptext) : Len(ptext[i].ds) = 5
      hasNamed == \E i \in 1..(Len(ptext) - 1) : ptext[i].s \in {"named", "Named"}
  IN (pout.done /\ ~hasZip /\ ~hasNamed) =>
       /\ ~pout.suspended
       /\ pout.result.status.state = "failed"
       /\ pout.result.status.error.message = MissingParamsText

\* C19. The response to an unexpected internal exception is the generic
\* internal-error body, code -32603, whatever the message of the exception:
\* had the exception carried any other message, the body would be the same.
C19_GenericInternalError ==
  LET messages == {"'URI malformed'", "'connect ECONNREFUSED 10.0.0.5:3306'",
                   "'Cannot read properties of undefined'"}
  IN rthrown.kind = "Error" =>
       /\ rresp.code = 0 - 32603
       /\ \A m \in messages :
            LET other == errorResponse(Exception("Error", 0, m))
            IN /\ other.statusCode = rresp.statusCode
               /\ other.code = rresp.code
               /\ other.message = rresp.message

\* C20. An agent card is built from the configured public base URL when there
\* is one; otherwise, when the request has a host header, from the request's
\* x-forwarded-proto (https when absent) and host; and its url is the url of
\* its one additionalInterfaces entry.
C20_CardUrl ==
  LET card == rresp.card
  IN rresp.kind = "card" =>
       /\ Truthy(renv) => card.url.origin = "configured"
       /\ (~Truthy(renv) /\ Truthy(rreq.host)) =>
            /\ card.url.origin = "request"
            /\ card.url.proto = (IF rreq.proto = Undefined THEN "'https'" ELSE rreq.proto)
            /\ card.url.host = rreq.host
       /\ Len(card.additionalInterfaces) = 1
       /\ \A i \in 1..Len(card.additionalInterfaces) : card.additionalInterfaces[i] = card.url

\* C23. A task that a message/send stores under an id the task map did not
\* hold has the incoming user message as the first element of its history when
\* the run has ended.
C23_UserMessageFirst ==
  [][\A k \in DOMAIN tasks' \ DOMAIN tasks :
       /\ tasks'[k].history # <<>>
       /\ tasks'[k].history[1].role = "user"]_vars

\* C24. Every response carries jsonrpc '2.0', a result or an error, and the id
\* of its request, 0 and '' included; its id is null only when the request had
\* no id or could not be parsed.
C24_IdEchoed ==
  lastResp.kind \in {"result", "error"} =>
    /\ lastResp.jsonrpc = "'2.0'"
    /\ lastResp.id = (IF ParseThrows(lastReq) \/ Envelope(lastReq).id = Undefined
                      THEN "null" ELSE lastReq.id)

\* C26. Every zipcode handed to SearchDoctors is an integer of 10000..99999,
\* whatever the accepted text, a five-digit match with leading zeros included.
C26_ZipcodeInRange ==
  (pout.done /\ pout.suspended /\ pout.searchParams.zipcode # NoZip) =>
    pout.searchParams.zipcode \in 10000..99999

\* C29. Every entry of the task map is stored under the id of its task and has
\* a status of completed, failed or canceled, and a tasks/get is never answered
\* with a task that is submitted or working.
C29_StoreInvariant ==
  /\ \A k \in DOMAIN tasks :
       /\ tasks[k].id = k
       /\ tasks[k].status.state \in {"completed", "failed", "canceled"}
  /\ (lastReq.method = "'tasks/get'" /\ lastResp.kind = "result") =>
       lastResp.result.status.state \in {"completed", "failed", "canceled"}

\* C29: a tasks/get has been answered with a canceled task while the map also
\* holds, under a generated id, a task whose run failed
C29_Witness ==
  /\ lastReq.method = "'tasks/get'"
  /\ lastResp.kind = "result"
  /\ lastResp.result.status.state = "canceled"
  /\ \E k \in DOMAIN tasks :
       /\ k \in {GenTaskIds[n] : n \in 1..MaxSends}
       /\ tasks[k].status.state = "failed"

\* C21. Whatever the dialect of its role and of its parts, the message handed
\* to sendMessage has role agent exactly when the inbound role is ROLE_AGENT or
\* agent, and role user exactly when it is ROLE_USER or user.
C21_RoleNormalized ==
  LET inbound == rsend.body.message.role
      outbound == rsend.params.message.role
  IN (rsend.called /\ inbound \in {"'ROLE_USER'", "'ROLE_AGENT'", "'user'", "'agent'"}) =>
       /\ outbound = "'agent'" <=> inbound \in {"'ROLE_AGENT'", "'agent'"}
       /\ outbound = "'user'" <=> inbound \in {"'ROLE_USER'", "'user'"}

\* C22. Every message handed to sendMessage by the message:send route has a
\* non-empty messageId: the one it arrived with when it had one, a generated one
\* otherwise, on the legacy and on the non-legacy path.
C22_MessageIdAssigned ==
  LET inbound == rsend.body.message.messageId
      outbound == rsend.params.message.messageId
  IN (rsend.called /\ rsend.body.message.present) =>
       /\ outbound \notin {Undefined, "''"}
       /\ inbound \notin {Undefined, "''"} => outbound = inbound
       /\ inbound \in {Undefined, "''"} => outbound = GenMsgIds[1]

\* C22: sendMessage has been handed a message of the documented dialect that
\* arrived with an empty messageId, under a generated one
C22_Witness ==
  /\ rsend.called
  /\ rsend.body.message.role = "'user'"
  /\ rsend.body.message.parts = <<"'text'">>
  /\ rsend.body.message.messageId = "''"
  /\ rsend.params.message.messageId = GenMsgIds[1]
  /\ rresp.delegated = "sendMessage"

\* C30. A tasks/cancel of X acknowledged while a message/send naming X awaits
\* SearchDoctors does not interrupt the call, and is not lost: when the send
\* has finished too, a tasks/get of X is answered with status canceled.
C30_AcknowledgedCancelKept ==
  [][\A ctx \in inflight :
       (/\ lastReq.method = "'tasks/cancel'"
        /\ lastReq.params.id = ctx.task.id
        /\ lastResp.kind = "result")
         => /\ lastResp.result.status.state = "canceled"
            /\ ctx \notin inflight' =>
                 LET got == handleTasksGet(tasks', Params(ctx.task.id, Undefined, NoMessage), "7")
                 IN /\ got.kind = "result"
                    /\ got.result.status.state = "canceled"]_vars

\* C25. waitForLambdaReady never throws and never blocks for good: whatever
\* GetFunctionConfiguration answers or throws, the wait returns, as soon as the
\* State is Active with LastUpdateStatus absent or Successful or once 90 s have
\* passed; its delay starts at 750 ms, grows by 1.4 and stays within 5000 ms.
C25_WaitReturns ==
  LET ready == /\ ~wait.cfg.threw
               /\ wait.cfg.State = "'Active'"
               /\ wait.cfg.LastUpdateStatus \in {Undefined, "'Successful'"}
  IN /\ wait.pc \in {"idle", "polling", "returned"}
     /\ wait.pc = "returned" => (ready \/ wait.now >= 90000)
     /\ (wait.pc = "polling" /\ wait.polls > 0) => ~ready
     /\ wait.polls <= 22
     /\ wait.now < 90000 + 5000 + 1000
     /\ wait.delayMs \in {750, 1050, 1470, 2058, 2881, 4033, 5000}
     /\ wait.polls = 0 => wait.delayMs = 750

\* C25: every poll threw, and the wait returned after its 22nd poll, the
\* deadline passed
C25_Witness ==
  /\ wait.pc = "returned"
  /\ wait.cfg.threw
  /\ wait.polls = 22
  /\ wait.now >= DeadlineMs
  /\ wait.delayMs = PollDelayCapMs

\* C27. sendWithConflictRetry sends at most 12 times and waits for the function
\* to be ready before every send; it returns on the first send that succeeds,
\* retries on a ResourceConflictException only, throws any other error at once
\* and throws 'Lambda remained busy' after 12 conflicts; its delay starts at
\* 750 ms and stays within 7000 ms.
C27_ConflictRetry ==
  LET conflicts == {"name:ResourceConflictException", "Code:ResourceConflictException"}
  IN /\ retry.sends <= 12
     /\ retry.waits >= retry.sends
     /\ retry.pc = "waiting" => retry.waits = retry.sends + 1
     /\ retry.pc = "loop" => (retry.sends = retry.attempt
                               /\ (retry.attempt > 0 => retry.error \in conflicts))
     /\ retry.pc = "returned" => (retry.error = Undefined /\ retry.sends = retry.attempt + 1)
     /\ retry.pc = "threw" =>
          \/ /\ retry.error = "'Lambda remained busy'"
             /\ retry.attempt = 12
             /\ retry.sends = 12
          \/ /\ retry.error \notin conflicts \cup {"'Lambda remained busy'", Undefined}
             /\ retry.sends = retry.attempt + 1
     /\ retry.delayMs \in {750, 1125, 1688, 2532, 3798, 5697, 7000}
     /\ retry.attempt = 0 => retry.delayMs = 750
     /\ retry.slept <= 7000

\* C27: twelve sends met a conflict each, the last sleep was of 7000 ms, and
\* sendWithConflictRetry threw 'Lambda remained busy'
C27_Witness ==
  /\ retry.pc = "threw"
  /\ retry.error = "'Lambda remained busy'"
  /\ retry.sends = MaxAttempts
  /\ retry.waits = MaxAttempts
  /\ retry.slept = RetryDelayCapMs

\* C28. When createFunctionUrl has returned the URL, updated or created,
\* addFunctionUrlPermission has been called for the function.
C28_PermissionAdded ==
  url.pc = "returned" => url.permissionCalls >= 1

====
